---- MODULE Spec2Model ----
(***************************************************************************)
(* Schedule-AI: the free-slot finder of backend/calendar_client.py         *)
(* (CalendarClient.find_available_slots) with the time-zone normalisation  *)
(* and the busy-time source (provider or mock) it depends on.              *)
(*                                                                         *)
(* Time.  A normalised datetime (an aware datetime in Asia/Kolkata) is the *)
(* number of minutes of IST wall-clock time since 00:00 of day 0.  A       *)
(* timestamp as it arrives (a datetime argument, or an ISO string of the   *)
(* provider) is a record [wall, zone]: the wall-clock minutes it shows and *)
(* the zone it carries: "ist" (+05:30), "utc" (Z / +00:00), "naive" (no    *)
(* zone) or "bad" (a string datetime.fromisoformat rejects).               *)
(***************************************************************************)
EXTENDS Integers, Sequences, FiniteSets

VARIABLES
    service,              \* self.service: TRUE when the provider client was built
    pc,                   \* position in find_available_slots
    start_ist,            \* start_ist (line 144)
    end_ist,              \* end_ist (line 145)
    duration_minutes,     \* argument duration_minutes
    business_hours_only,  \* argument business_hours_only
    busy_times,           \* busy_times (line 147): the raw timestamp pairs
    busy_periods,         \* busy_periods (lines 151-158), parsed and sorted
    idx,                  \* index of the outer for loop (line 163)
    current_time,         \* current_time (line 161)
    slot_start,           \* slot_start (lines 170, 187)
    available_slots,      \* available_slots (line 148)
    result,               \* the list returned (line 198)
    tool_call,            \* the arguments of the create_calendar_event call, if any
    tool_reply,           \* what create_calendar_event returned
    calendar_events       \* number of events inserted into the provider's calendar

vars == <<service, pc, start_ist, end_ist, duration_minutes, business_hours_only,
          busy_times, busy_periods, idx, current_time, slot_start,
          available_slots, result, tool_call, tool_reply, calendar_events>>

\* the state of the create_calendar_event tool
toolVars == <<tool_call, tool_reply, calendar_events>>

----------------------------------------------------------------------------
(* Program constants *)

\* pytz.timezone('Asia/Kolkata'): UTC+05:30, in minutes
IstOffset == 330
\* business hours 9 <= hour < 18 (lines 173, 190)
BusinessOpen == 9
BusinessClose == 18
\* available_slots[:10] (line 198)
MaxResults == 10
\* the mock busy interval 10:00-11:00 (lines 89-90)
MockStartHour == 10
MockEndHour == 11

(* Bounds of the model *)

\* longest busy list the provider returns
MaxBusy == 2
\* durations are 30, 60, ... 30 * MaxDurSteps minutes
MaxDurSteps == 2

\* non-positive durations are 0, -30, ... -30 * MaxNegSteps minutes
MaxNegSteps == 1
\* a slot loop is followed while at most MaxEmit slots are kept and
\* slot_start is at most MaxEmit steps before the window
MaxEmit == 12

At(h, m) == h * 60 + m

Stamp(w, z) == [wall |-> w, zone |-> z]

----------------------------------------------------------------------------
(* datetime helpers *)

\* utcoffset of an aware timestamp, in minutes
UtcOffset(zone) == IF zone = "ist" THEN IstOffset ELSE 0

\* dt.astimezone(self.timezone): same instant, IST wall clock
astimezone(dt) == dt.wall - UtcOffset(dt.zone) + IstOffset

\* CalendarClient._ensure_timezone_aware: naive means IST already
ensure_timezone_aware(dt) ==
    IF dt.zone = "naive" THEN dt.wall ELSE astimezone(dt)

\* CalendarClient._parse_datetime_with_timezone: naive means UTC; a string
\* that does not parse yields datetime.now(self.timezone), here `now`
parse_datetime_with_timezone(dt_str, now) ==
    IF dt_str.zone = "bad" THEN now
    ELSE IF dt_str.zone # "naive" THEN astimezone(dt_str)
    ELSE dt_str.wall + IstOffset

\* datetime.isoformat() of a normalised datetime: "...+05:30"
isoformat(t) == Stamp(t, "ist")

\* datetime.hour of a normalised datetime
Hour(t) == (t \div 60) % 24

\* start_ist.replace(hour=h, minute=0): same date, seconds kept
ReplaceHour(t, h) == (t \div 1440) * 1440 + h * 60

----------------------------------------------------------------------------
(* Inputs *)

\* datetimes given as start_date
WindowStarts == {Stamp(At(8, 0), "naive"), Stamp(At(3, 30), "utc")}

\* datetimes given as end_date
WindowEnds == {Stamp(At(8, 0), "naive"), Stamp(At(9, 0), "ist"), Stamp(At(4, 0), "utc"),
               Stamp(At(10, 0), "ist"), Stamp(At(11, 0), "naive"),
               Stamp(At(12, 0), "naive"), Stamp(At(19, 0), "ist")}

\* values of duration_minutes (positive)
Durations == {30 * k : k \in 1..MaxDurSteps}

Busy(s, e) == [start |-> s, end |-> e]

\* {'start': ..., 'end': ...} records the provider may return
BusyChoices ==
    { Busy(Stamp(At(10, 0), "ist"), Stamp(At(10, 30), "ist")),
      Busy(Stamp(At(9, 0), "ist"), Stamp(At(10, 0), "ist")),
      Busy(Stamp(At(9, 30), "ist"), Stamp(At(10, 30), "ist")),
      Busy(Stamp(At(3, 30), "utc"), Stamp(At(6, 30), "utc")),
      Busy(Stamp(At(13, 0), "ist"), Stamp(At(14, 0), "ist")),
      Busy(Stamp(At(11, 0), "ist"), Stamp(At(9, 30), "ist")),
      Busy(Stamp(At(8, 0), "ist"), Stamp(At(19, 0), "ist")),
      Busy(Stamp(At(4, 30), "naive"), Stamp(At(5, 0), "naive")),
      Busy(Stamp(0, "bad"), Stamp(0, "bad")) }

\* lists of at most MaxBusy records
BusyLists == UNION {[1..n -> BusyChoices] : n \in 0..MaxBusy}

\* values datetime.now(self.timezone) may take during a call
NowChoices == {At(10, 30), At(11, 0)}

HasBad(list) ==
    \E k \in 1..Len(list) : list[k].start.zone = "bad" \/ list[k].end.zone = "bad"

\* the readings of the wall clock at the 2 * Len(list) parses of a call, in
\* call order; the clock does not run backwards
Clocks(list) ==
    IF HasBad(list)
    THEN {c \in [1..2 * Len(list) -> NowChoices] :
              \A a, b \in 1..2 * Len(list) : a <= b => c[a] <= c[b]}
    ELSE {[k \in 1..2 * Len(list) |-> At(0, 0)]}

----------------------------------------------------------------------------
(* get_busy_times *)

\* the mock list returned when self.service is None (lines 84-93)
MockBusyTimes(start_date) ==
    LET s == ensure_timezone_aware(Stamp(start_date, "ist"))
    IN  << Busy(isoformat(ReplaceHour(s, MockStartHour)),
                isoformat(ReplaceHour(s, MockEndHour))) >>

\* get_busy_times(start_ist, end_ist): the mock list without a service, else
\* the events the provider returned ([] on HttpError)
get_busy_times(svc, start_date, events) ==
    IF ~svc THEN MockBusyTimes(start_date) ELSE events

----------------------------------------------------------------------------
(* find_available_slots: pure parts *)

\* lines 151-155: parse every record to a pair <<busy_start, busy_end>>
ParsePeriods(list, clock) ==
    [k \in 1..Len(list) |->
        << parse_datetime_with_timezone(list[k].start, clock[2 * k - 1]),
           parse_datetime_with_timezone(list[k].end, clock[2 * k]) >>]

\* insert x behind every element whose start is <= x's (stable)
RECURSIVE InsertByStart(_, _)
InsertByStart(sorted, x) ==
    IF sorted = <<>> THEN <<x>>
    ELSE IF sorted[Len(sorted)][1] <= x[1] THEN Append(sorted, x)
    ELSE Append(InsertByStart(SubSeq(sorted, 1, Len(sorted) - 1), x),
                sorted[Len(sorted)])

\* busy_periods.sort(key=lambda x: x[0]) (line 158)
RECURSIVE SortByStart(_)
SortByStart(seq) ==
    IF seq = <<>> THEN <<>>
    ELSE InsertByStart(SortByStart(SubSeq(seq, 1, Len(seq) - 1)), seq[Len(seq)])

\* the gap test of lines 165-168 and 184-186
GapFits(cur, bound, d) == cur < bound /\ (bound - cur) >= d

\* mutant: the loop tests the slot's start, not its end, against the bound
SlotFitsByStart(s, d, bound) == s < bound

\* the loop test of lines 171 and 188
SlotFits(s, d, bound) == s + d <= bound

\* mutant: the closing hour is included
KeepSlotClosingHour(bh, s) ==
    ~bh \/ (BusinessOpen <= Hour(s) /\ Hour(s) <= BusinessClose)

\* the business-hours test of lines 173 and 190
KeepSlot(bh, s) == ~bh \/ (BusinessOpen <= Hour(s) /\ Hour(s) < BusinessClose)

\* mutant: slots of a fixed 30 minutes
MakeSlotHalfHour(s, d) ==
    [start |-> isoformat(s), end |-> isoformat(s + 30), duration_minutes |-> d]

\* the dict appended at lines 174-178 and 191-195
MakeSlot(s, d) ==
    [start |-> isoformat(s), end |-> isoformat(s + d), duration_minutes |-> d]

\* mutant: the cursor is set to the busy end, also when that is earlier
AdvanceCursorToEnd(cur, busy_end) == busy_end

\* mutant: the cursor is not moved past the busy period
AdvanceCursorStuck(cur, busy_end) == cur

\* max(current_time, busy_end) (line 181)
AdvanceCursor(cur, busy_end) == IF cur >= busy_end THEN cur ELSE busy_end

\* mutant: the list is returned whole
TopSlotsAll(slots) == slots

\* available_slots[:10] (line 198)
TopSlots(slots) ==
    IF Len(slots) <= MaxResults THEN slots ELSE SubSeq(slots, 1, MaxResults)

----------------------------------------------------------------------------
(* State machine *)

\* CalendarClient.__init__ / _setup_service: the service is built, or is None
\* when the credentials are missing or invalid; no call is in progress
Init ==
    /\ service \in BOOLEAN
    /\ pc = "idle"
    /\ start_ist = 0
    /\ end_ist = 0
    /\ duration_minutes = 30
    /\ business_hours_only = TRUE
    /\ busy_times = <<>>
    /\ busy_periods = <<>>
    /\ idx = 1
    /\ current_time = 0
    /\ slot_start = 0
    /\ available_slots = <<>>
    /\ result = <<>>
    /\ tool_call = <<>>
    /\ tool_reply = [status |-> "none", id |-> "", link |-> ""]
    /\ calendar_events = 0

\* lines 143-161: normalise the window, fetch and parse the busy times, sort
\* them, and set the cursor to the start of the window
Enter(start_date, end_date, d, bh, events, clock) ==
    /\ start_ist' = ensure_timezone_aware(start_date)
    /\ end_ist' = ensure_timezone_aware(end_date)
    /\ duration_minutes' = d
    /\ business_hours_only' = bh
    /\ busy_times' = get_busy_times(service, start_ist', events)
    /\ busy_periods' = SortByStart(ParsePeriods(busy_times', clock))
    /\ idx' = 1
    /\ current_time' = start_ist'
    /\ slot_start' = start_ist'
    /\ available_slots' = <<>>
    /\ result' = <<>>
    /\ pc' = "for"
    /\ UNCHANGED <<toolVars, service>>

\* a call of find_available_slots with a positive duration
Call ==
    /\ pc = "idle"
    /\ \E start_date \in WindowStarts, end_date \in WindowEnds, d \in Durations,
          bh \in BOOLEAN, events \in BusyLists :
           \E clock \in Clocks(get_busy_times(service, 0, events)) :
               Enter(start_date, end_date, d, bh, events, clock)

\* lines 163-170: the next busy period has a gap before it that fits a slot
GapBefore ==
    /\ pc = "for"
    /\ idx <= Len(busy_periods)
    /\ GapFits(current_time, busy_periods[idx][1], duration_minutes)
    /\ slot_start' = current_time
    /\ pc' = "while_gap"
    /\ UNCHANGED <<toolVars, service, start_ist, end_ist, duration_minutes, business_hours_only,
                   busy_times, busy_periods, idx, current_time, available_slots, result>>

\* lines 163-168, 181: no gap that fits; the cursor moves past the busy period
NoGapBefore ==
    /\ pc = "for"
    /\ idx <= Len(busy_periods)
    /\ ~GapFits(current_time, busy_periods[idx][1], duration_minutes)
    /\ current_time' = AdvanceCursor(current_time, busy_periods[idx][2])
    /\ idx' = idx + 1
    /\ UNCHANGED <<toolVars, service, pc, start_ist, end_ist, duration_minutes, business_hours_only,
                   busy_times, busy_periods, slot_start, available_slots, result>>

\* mutant: the step of the slot loop is taken only when the slot is kept
EmitInGapStepIfKept ==
    /\ pc = "while_gap"
    /\ SlotFits(slot_start, duration_minutes, busy_periods[idx][1])
    /\ available_slots' =
           IF KeepSlot(business_hours_only, slot_start)
           THEN Append(available_slots, MakeSlot(slot_start, duration_minutes))
           ELSE available_slots
    /\ slot_start' =
           IF KeepSlot(business_hours_only, slot_start)
           THEN slot_start + duration_minutes
           ELSE slot_start
    /\ UNCHANGED <<toolVars, service, pc, start_ist, end_ist, duration_minutes,
                   business_hours_only, busy_times, busy_periods, idx, current_time, result>>

\* lines 171-179: one iteration of the slot loop of a gap before a busy period
EmitInGap ==
    /\ pc = "while_gap"
    /\ SlotFits(slot_start, duration_minutes, busy_periods[idx][1])
    /\ available_slots' =
           IF KeepSlot(business_hours_only, slot_start)
           THEN Append(available_slots, MakeSlot(slot_start, duration_minutes))
           ELSE available_slots
    /\ slot_start' = slot_start + duration_minutes
    /\ UNCHANGED <<toolVars, service, pc, start_ist, end_ist, duration_minutes, business_hours_only,
                   busy_times, busy_periods, idx, current_time, result>>

\* lines 171, 181: the slot loop of the gap ends; the cursor moves past the
\* busy period
LeaveGap ==
    /\ pc = "while_gap"
    /\ ~SlotFits(slot_start, duration_minutes, busy_periods[idx][1])
    /\ current_time' = AdvanceCursor(current_time, busy_periods[idx][2])
    /\ idx' = idx + 1
    /\ pc' = "for"
    /\ UNCHANGED <<toolVars, service, start_ist, end_ist, duration_minutes, business_hours_only,
                   busy_times, busy_periods, slot_start, available_slots, result>>

\* lines 184-187: after the last busy period, the rest of the window fits a slot
GapAfter ==
    /\ pc = "for"
    /\ idx > Len(busy_periods)
    /\ GapFits(current_time, end_ist, duration_minutes)
    /\ slot_start' = current_time
    /\ pc' = "while_tail"
    /\ UNCHANGED <<toolVars, service, start_ist, end_ist, duration_minutes, business_hours_only,
                   busy_times, busy_periods, idx, current_time, available_slots, result>>

\* mutant: nothing is kept once max_results slots are kept
EmitInTailCapped ==
    /\ pc = "while_tail"
    /\ SlotFits(slot_start, duration_minutes, end_ist)
    /\ available_slots' =
           IF KeepSlot(business_hours_only, slot_start) /\ Len(available_slots) < MaxResults
           THEN Append(available_slots, MakeSlot(slot_start, duration_minutes))
           ELSE available_slots
    /\ slot_start' = slot_start + duration_minutes
    /\ UNCHANGED <<toolVars, service, pc, start_ist, end_ist, duration_minutes,
                   business_hours_only, busy_times, busy_periods, idx, current_time, result>>

\* lines 188-196: one iteration of the slot loop after the last busy period
EmitInTail ==
    /\ pc = "while_tail"
    /\ SlotFits(slot_start, duration_minutes, end_ist)
    /\ available_slots' =
           IF KeepSlot(business_hours_only, slot_start)
           THEN Append(available_slots, MakeSlot(slot_start, duration_minutes))
           ELSE available_slots
    /\ slot_start' = slot_start + duration_minutes
    /\ UNCHANGED <<toolVars, service, pc, start_ist, end_ist, duration_minutes, business_hours_only,
                   busy_times, busy_periods, idx, current_time, result>>

\* line 198: return the first ten slots
Return ==
    /\ \/ /\ pc = "for"
          /\ idx > Len(busy_periods)
          /\ ~GapFits(current_time, end_ist, duration_minutes)
       \/ /\ pc = "while_tail"
          /\ ~SlotFits(slot_start, duration_minutes, end_ist)
    /\ result' = TopSlots(available_slots)
    /\ pc' = "done"
    /\ UNCHANGED <<toolVars, service, start_ist, end_ist, duration_minutes, business_hours_only,
                   busy_times, busy_periods, idx, current_time, slot_start,
                   available_slots>>

Next ==
    \/ Call
    \/ GapBefore
    \/ NoGapBefore
    \/ EmitInGap
    \/ LeaveGap
    \/ GapAfter
    \/ EmitInTail
    \/ Return

Spec == Init /\ [][Next]_vars

----------------------------------------------------------------------------
(* find_available_slots as a function of its inputs (duration > 0): the    *)
(* same loops, run to completion                                           *)

\* the while loops of lines 171-179 and 188-196, from slot_start s
RECURSIVE StepSlots(_, _, _, _, _)
StepSlots(s, d, bound, bh, slots) ==
    IF SlotFits(s, d, bound)
    THEN StepSlots(s + d, d, bound, bh,
                   IF KeepSlot(bh, s) THEN Append(slots, MakeSlot(s, d)) ELSE slots)
    ELSE slots

\* lines 165-179 and 184-196: the slots of the gap from cur to bound
GapSlots(cur, bound, d, bh, slots) ==
    IF GapFits(cur, bound, d) THEN StepSlots(cur, d, bound, bh, slots) ELSE slots

\* lines 163-196: the for loop from the k-th busy period on, then the tail
RECURSIVE ScanBusy(_, _, _, _, _, _, _)
ScanBusy(periods, k, cur, end, d, bh, slots) ==
    IF k <= Len(periods)
    THEN ScanBusy(periods, k + 1, AdvanceCursor(cur, periods[k][2]), end, d, bh,
                  GapSlots(cur, periods[k][1], d, bh, slots))
    ELSE GapSlots(cur, end, d, bh, slots)

\* lines 157-198: the list returned for a window, parsed busy periods, a
\* duration and the filter flag
FindSlots(start, end, periods, d, bh) ==
    TopSlots(ScanBusy(SortByStart(periods), 1, start, end, d, bh, <<>>))

\* the two renderings agree: what the step machine returns is FindSlots of
\* its inputs
StepsAgreeWithFindSlots ==
    (pc = "done") =>
        result = FindSlots(start_ist, end_ist, busy_periods, duration_minutes,
                           business_hours_only)

----------------------------------------------------------------------------
(* Vocabulary of the properties *)

\* the instants a returned slot's 'start' and 'end' strings denote
SlotBegin(slot) == astimezone(slot.start)
SlotFinish(slot) == astimezone(slot.end)

\* a busy record of the data model: both bounds are zoned timestamps
Zoned(b) == b.start.zone \in {"ist", "utc"} /\ b.end.zone \in {"ist", "utc"}

\* the instants a zoned busy record's bounds denote
BusyBegin(b) == astimezone(b.start)
BusyFinish(b) == astimezone(b.end)

Returned == pc = "done"

----------------------------------------------------------------------------
(* C1  No-overlap: no returned slot overlaps a busy interval of the input: *)
(* for every returned slot s and every (zoned) busy interval b,            *)
(* s.end <= b.start or b.end <= s.start.                                   *)
NoOverlap ==
    Returned =>
        \A k \in 1..Len(result), j \in 1..Len(busy_times) :
            Zoned(busy_times[j]) =>
                \/ SlotFinish(result[k]) <= BusyBegin(busy_times[j])
                \/ BusyFinish(busy_times[j]) <= SlotBegin(result[k])

\* two busy intervals inside the window, with a slot that ends where one
\* begins and a slot that begins where one ends
NoOverlapWitness ==
    /\ Returned
    /\ Len(busy_times) = 2
    /\ \A j \in 1..2 :
          /\ Zoned(busy_times[j])
          /\ start_ist < BusyBegin(busy_times[j])
          /\ BusyBegin(busy_times[j]) < BusyFinish(busy_times[j])
          /\ BusyFinish(busy_times[j]) < end_ist
    /\ \E k \in 1..Len(result), j \in 1..2 :
          SlotFinish(result[k]) = BusyBegin(busy_times[j])
    /\ \E k \in 1..Len(result), j \in 1..2 :
          SlotBegin(result[k]) = BusyFinish(busy_times[j])

(* C2  Exact duration: every returned slot has end - start equal to the    *)
(* requested duration and carries it in duration_minutes.                  *)
ExactDuration ==
    Returned =>
        \A k \in 1..Len(result) :
            /\ SlotFinish(result[k]) - SlotBegin(result[k]) = duration_minutes
            /\ result[k].duration_minutes = duration_minutes

\* a 60-minute call that leaves a remainder shorter than the duration at the
\* end of the window, which is not returned
ExactDurationWitness ==
    /\ Returned
    /\ duration_minutes = 60
    /\ \E k \in 1..Len(result) :
          /\ SlotFinish(result[k]) < end_ist
          /\ SlotFinish(result[k]) + duration_minutes > end_ist

(* C3  Ordering: the returned slots are sorted by start time ascending,    *)
(* for every busy list the finder accepts.                                 *)
Ordering ==
    Returned =>
        \A k \in 1..Len(result) - 1 :
            SlotBegin(result[k]) <= SlotBegin(result[k + 1])

(* C4  Cap respected: the returned list has at most max_results (10)       *)
(* entries.                                                                *)
CapRespected == Returned => Len(result) <= MaxResults

\* more than ten slots were kept and exactly ten are returned
CapRespectedWitness ==
    /\ Returned
    /\ Len(available_slots) > MaxResults
    /\ Len(result) = MaxResults

(* C5  Business-hours filter: with business_hours_only every returned      *)
(* slot starts at a local hour h with 9 <= h < 18; without it the filter   *)
(* removes nothing: every slot the loop of the current gap has stepped     *)
(* over is in the list.                                                    *)
BusinessHoursFilter ==
    /\ (Returned /\ business_hours_only) =>
           \A k \in 1..Len(result) :
               /\ BusinessOpen <= Hour(SlotBegin(result[k]))
               /\ Hour(SlotBegin(result[k])) < BusinessClose
    /\ (pc \in {"while_gap", "while_tail"} /\ ~business_hours_only) =>
           LET n == (slot_start - current_time) \div duration_minutes
               m == Len(available_slots)
           IN  /\ m >= n
               /\ \A k \in 1..n :
                     SlotBegin(available_slots[m - n + k]) =
                         current_time + (k - 1) * duration_minutes

\* a filtered call over a window that begins before 09:00 and ends after
\* 18:00: the slots at 08:00 and 18:00 are dropped, nine remain
BusinessHoursFilterWitness ==
    /\ Returned
    /\ business_hours_only
    /\ busy_times = <<>>
    /\ duration_minutes = 60
    /\ Hour(start_ist) < BusinessOpen
    /\ Hour(end_ist) >= BusinessClose
    /\ Len(result) = BusinessClose - BusinessOpen

(* C6  Slots stay inside the search window: window.start <= s.start and    *)
(* s.end <= window.end for every returned slot s.                          *)
SlotsInsideWindow ==
    Returned =>
        \A k \in 1..Len(result) :
            /\ start_ist <= SlotBegin(result[k])
            /\ SlotFinish(result[k]) <= end_ist

(* C7  Returned slots are mutually non-overlapping: two entries at         *)
(* different positions of the returned list are disjoint in time.          *)
SlotsDisjoint ==
    Returned =>
        \A k, l \in 1..Len(result) :
            k < l =>
                \/ SlotFinish(result[k]) <= SlotBegin(result[l])
                \/ SlotFinish(result[l]) <= SlotBegin(result[k])

(* C8  Empty window: window.start >= window.end yields the empty list.     *)
EmptyWindow == (Returned /\ start_ist >= end_ist) => result = <<>>

(* C9  Window shorter than the duration: zero slots.                       *)
ShortWindow ==
    (Returned /\ end_ist - start_ist < duration_minutes) => result = <<>>

(* C10  Fully booked: a single busy interval exactly equal to the window   *)
(* (window.start < window.end) yields the empty list, with or without the  *)
(* business-hours filter.                                                  *)
FullyBooked ==
    ( /\ Returned
      /\ start_ist < end_ist
      /\ Len(busy_times) = 1
      /\ Zoned(busy_times[1])
      /\ BusyBegin(busy_times[1]) = start_ist
      /\ BusyFinish(busy_times[1]) = end_ist ) => result = <<>>

\* an unfiltered call whose window 09:00-12:00 IST is covered by one busy
\* interval given in UTC
FullyBookedWitness ==
    /\ Returned
    /\ ~business_hours_only
    /\ start_ist < end_ist
    /\ Len(busy_times) = 1
    /\ busy_times[1].start.zone = "utc"
    /\ BusyBegin(busy_times[1]) = start_ist
    /\ BusyFinish(busy_times[1]) = end_ist
    /\ result = <<>>

----------------------------------------------------------------------------
(* The gap-stepping sequence of a window and a set of busy intervals, from *)
(* its definition: the maximal free gaps of the window minus the union of  *)
(* the busy intervals, each stepped by the duration from its start.        *)

\* the busy intervals (pairs of instants) of the zoned records of a list
Intervals(list) ==
    {<<BusyBegin(list[j]), BusyFinish(list[j])>> :
        j \in {i \in 1..Len(list) : Zoned(list[i])}}

\* instant t lies in the union of the intervals
Covered(ivs, t) == \E b \in ivs : b[1] <= t /\ t < b[2]

SetMin(S) == CHOOSE x \in S : \A y \in S : x <= y

\* the starts of the maximal free gaps of [ws, we)
GapStarts(ivs, ws, we) ==
    {g \in {ws} \cup {b[2] : b \in ivs} : ws <= g /\ g < we /\ ~Covered(ivs, g)}

\* the end of the free gap that starts at g
GapEnd(ivs, g, we) == SetMin({we} \cup {b[1] : b \in {c \in ivs : c[1] > g}})

\* the business-hours predicate on a local start time
PassesHours(bh, t) == bh => (9 <= (t \div 60) % 24 /\ (t \div 60) % 24 < 18)

\* the starts g0 + k*d with g0 + (k+1)*d <= g1 over all gaps, filtered
ExpectedStarts(ivs, ws, we, d, bh) ==
    {t \in UNION {{g + k * d : k \in 0..((we - ws) \div d)} : g \in GapStarts(ivs, ws, we)} :
        /\ \E g \in GapStarts(ivs, ws, we) :
              /\ g <= t
              /\ (t - g) % d = 0
              /\ t + d <= GapEnd(ivs, g, we)
        /\ PassesHours(bh, t)}

\* the elements of a finite set of integers in ascending order
RECURSIVE Ascending(_)
Ascending(S) ==
    IF S = {} THEN <<>> ELSE <<SetMin(S)>> \o Ascending(S \ {SetMin(S)})

\* the first n elements of a sequence
FirstN(seq, n) == IF Len(seq) <= n THEN seq ELSE SubSeq(seq, 1, n)

\* the start instants of the returned slots, in list order
ResultStarts == [k \in 1..Len(result) |-> SlotBegin(result[k])]

\* every busy record is zoned, has start < end and lies inside the window
BusyInsideWindow ==
    \A j \in 1..Len(busy_times) :
        /\ Zoned(busy_times[j])
        /\ start_ist <= BusyBegin(busy_times[j])
        /\ BusyBegin(busy_times[j]) < BusyFinish(busy_times[j])
        /\ BusyFinish(busy_times[j]) <= end_ist

(* C11  Gap-stepping result: for a window with start < end and busy        *)
(* intervals with start < end inside the window, the returned slots are    *)
(* exactly the first max_results elements of the gap-stepping sequence,    *)
(* each of the requested duration.  In particular window 09:00-12:00, busy *)
(* 10:00-10:30, 30 minutes, filter on, gives 09:00, 09:30, 10:30, 11:00,   *)
(* 11:30; window 09:00-10:00, no busy interval, 60 minutes, gives 09:00.   *)
GapStepping ==
    /\ (Returned /\ start_ist < end_ist /\ BusyInsideWindow) =>
           /\ ResultStarts =
                  FirstN(Ascending(ExpectedStarts(Intervals(busy_times), start_ist, end_ist,
                                                  duration_minutes, business_hours_only)),
                         10)
           /\ \A k \in 1..Len(result) :
                  SlotFinish(result[k]) = SlotBegin(result[k]) + duration_minutes
    /\ ( /\ Returned
         /\ start_ist = At(9, 0) /\ end_ist = At(12, 0)
         /\ busy_times = <<Busy(Stamp(At(10, 0), "ist"), Stamp(At(10, 30), "ist"))>>
         /\ duration_minutes = 30 /\ business_hours_only ) =>
           ResultStarts = <<At(9, 0), At(9, 30), At(10, 30), At(11, 0), At(11, 30)>>
    /\ ( /\ Returned
         /\ start_ist = At(9, 0) /\ end_ist = At(10, 0)
         /\ busy_times = <<>>
         /\ duration_minutes = 60 ) =>
           ResultStarts = <<At(9, 0)>>

\* two overlapping busy intervals inside the window leave a gap before and
\* a gap after them, and more slots fit than are returned
GapSteppingWitness ==
    /\ Returned
    /\ start_ist < end_ist
    /\ BusyInsideWindow
    /\ Len(busy_times) = 2
    /\ Cardinality(GapStarts(Intervals(busy_times), start_ist, end_ist)) = 2
    /\ Cardinality(ExpectedStarts(Intervals(busy_times), start_ist, end_ist,
                                  duration_minutes, business_hours_only)) > 10
    /\ Len(result) = 10

\* the two examples are reached
GapSteppingExamples ==
    /\ Returned
    /\ \/ /\ start_ist = At(9, 0) /\ end_ist = At(12, 0)
          /\ busy_times = <<Busy(Stamp(At(10, 0), "ist"), Stamp(At(10, 30), "ist"))>>
          /\ duration_minutes = 30 /\ business_hours_only
          /\ Len(result) = 5
       \/ /\ start_ist = At(9, 0) /\ end_ist = At(10, 0)
          /\ busy_times = <<>>
          /\ duration_minutes = 60
          /\ Len(result) = 1

----------------------------------------------------------------------------
\* every record of the list is zoned
AllZoned(list) == \A j \in 1..Len(list) : Zoned(list[j])

\* the bounds of the intervals
Endpoints(ivs) == {b[1] : b \in ivs} \cup {b[2] : b \in ivs}

\* two sets of half-open intervals cover the same instants: coverage only
\* changes at an endpoint, so it is compared there
SameCoverage(ivs1, ivs2) ==
    \A t \in Endpoints(ivs1) \cup Endpoints(ivs2) : Covered(ivs1, t) <=> Covered(ivs2, t)

\* what a call with the same window, duration and flag returns for the
\* zoned busy list `other`
SlotsFor(other) ==
    FindSlots(start_ist, end_ist, ParsePeriods(other, CHOOSE c \in Clocks(other) : TRUE),
              duration_minutes, business_hours_only)

(* C12  The output depends only on the union of busy coverage: a call     *)
(* with another busy list that covers the same instants (reordered, with  *)
(* duplicates, or merged) returns the identical slot list.  In particular *)
(* busy 09:00-10:00 and 09:30-10:30 in window 09:00-11:00 with 30 minutes *)
(* yields only 10:30-11:00.                                               *)
CoverageDeterminesSlots ==
    /\ (Returned /\ service /\ AllZoned(busy_times)) =>
           \A other \in BusyLists :
               (AllZoned(other) /\ SameCoverage(Intervals(busy_times), Intervals(other)))
                   => SlotsFor(other) = result
    /\ ( /\ Returned
         /\ start_ist = At(9, 0) /\ end_ist = At(11, 0)
         /\ busy_times = <<Busy(Stamp(At(9, 0), "ist"), Stamp(At(10, 0), "ist")),
                           Busy(Stamp(At(9, 30), "ist"), Stamp(At(10, 30), "ist"))>>
         /\ duration_minutes = 30 ) =>
           ResultStarts = <<At(10, 30)>>

(* C13  Truncation keeps the earliest slots: the returned list is the      *)
(* first max_results elements of the full sequence of kept slots, and      *)
(* every kept slot omitted because of the cap starts no earlier than       *)
(* every returned slot.                                                    *)
TruncationKeepsEarliest ==
    Returned =>
        /\ result = FirstN(available_slots, 10)
        /\ \A k \in 1..Len(available_slots), j \in 1..Len(result) :
               k > Len(result) =>
                   SlotBegin(available_slots[k]) >= SlotBegin(result[j])

(* C14  Idempotence / determinism: a second call with the identical        *)
(* window, busy list (identical timestamp strings, well-formed or not),    *)
(* duration and flag returns the identical slot list, whatever the wall    *)
(* clock reads during it.                                                  *)
Deterministic ==
    Returned =>
        \A clock \in Clocks(busy_times) :
            FindSlots(start_ist, end_ist, ParsePeriods(busy_times, clock),
                      duration_minutes, business_hours_only) = result

----------------------------------------------------------------------------
(* Calls with any duration.  Nothing in find_available_slots tests the     *)
(* sign of duration_minutes, so the same steps run; a slot loop that does  *)
(* not advance is followed up to the bound MaxEmit.                        *)

\* values of duration_minutes: negative, zero and positive
AnyDurations == {30 * k : k \in (0 - MaxNegSteps)..1}

\* a call of find_available_slots with any duration
CallAnyDuration ==
    /\ pc = "idle"
    /\ \E start_date \in WindowStarts, end_date \in WindowEnds, d \in AnyDurations,
          bh \in BOOLEAN, events \in BusyLists :
           \E clock \in Clocks(get_busy_times(service, 0, events)) :
               Enter(start_date, end_date, d, bh, events, clock)

\* the part of a run the model follows
WithinBounds ==
    /\ Len(available_slots) <= MaxEmit
    /\ slot_start >= start_ist - 30 * MaxEmit

NextAnyDuration ==
    \/ CallAnyDuration
    \/ WithinBounds /\ GapBefore
    \/ WithinBounds /\ NoGapBefore
    \/ WithinBounds /\ EmitInGap
    \/ WithinBounds /\ LeaveGap
    \/ WithinBounds /\ GapAfter
    \/ WithinBounds /\ EmitInTail
    \/ WithinBounds /\ Return

SpecAnyDuration == Init /\ [][NextAnyDuration]_vars

(* C15  Non-positive duration is rejected: a call with duration <= 0 ends  *)
(* with an InvalidArgument error and returns no slot list: it never        *)
(* returns a list and never produces a slot.                               *)
NonPositiveRejected ==
    duration_minutes <= 0 => (pc # "done" /\ available_slots = <<>>)

----------------------------------------------------------------------------
(* C16  Malformed timestamps fail the whole call: with an unparseable busy *)
(* bound the call ends in an error with no slots returned; no default      *)
(* value replaces the malformed timestamp and no slot is computed.         *)
MalformedRejected ==
    HasBad(busy_times) =>
        /\ busy_periods = <<>>
        /\ available_slots = <<>>
        /\ pc # "done"

(* C17  Uniform normalisation of naive timestamps: a zone-less busy bound  *)
(* is read as wall-clock time already in the fixed zone, with no offset    *)
(* added, as a zone-less window bound is: the busy period parsed from a    *)
(* naive record is the pair of its wall-clock readings.                    *)
NaiveIsLocal ==
    pc # "idle" =>
        \A j \in 1..Len(busy_times) :
            (busy_times[j].start.zone = "naive" /\ busy_times[j].end.zone = "naive") =>
                \E k \in 1..Len(busy_periods) :
                    busy_periods[k] = <<busy_times[j].start.wall, busy_times[j].end.wall>>

(* C18  Slots outside business hours are excluded: with the filter on,     *)
(* every returned slot lies inside the local business hours: it starts at  *)
(* or after 09:00 and ends at or before 18:00 of the same day.             *)
InsideBusinessHours ==
    (Returned /\ business_hours_only) =>
        \A k \in 1..Len(result) :
            LET s == SlotBegin(result[k])
                day == (s \div 1440) * 1440
            IN  /\ day + 9 * 60 <= s
                /\ SlotFinish(result[k]) <= day + 18 * 60

----------------------------------------------------------------------------
(* create_calendar_event (agent_tools.py) and CalendarClient.create_event  *)

\* ISO strings given as start_datetime and end_datetime
EventStamps ==
    {Stamp(At(14, 0), "naive"), Stamp(At(15, 0), "naive"), Stamp(At(14, 0), "ist"),
     Stamp(At(9, 30), "utc"), Stamp(0, "bad")}

\* values of the attendees argument: None, an empty list, one address
AttendeeChoices == {"None", "empty", "one"}

\* what the provider does with an insert
ProviderChoices == {"created", "HttpError"}

\* the parameters CalendarClient.create_event declares (lines 200-201)
CreateEventParams == {"title", "start_time", "end_time", "description"}

\* the keyword arguments create_calendar_event passes (agent_tools 125-131)
CreateEventKeywords == {"title", "start_time", "end_time", "description", "attendees"}

NoEvent == [id |-> "", link |-> ""]

\* CalendarClient.create_event: the mock event without a service, else the
\* inserted event, or None on HttpError
create_event(svc, provider) ==
    IF ~svc THEN [id |-> "mock_event_id", link |-> "https://calendar.google.com/mock-event"]
    ELSE IF provider = "created" THEN [id |-> "event_id", link |-> "htmlLink"]
    ELSE NoEvent

\* the reply of create_calendar_event (agent_tools 108-158): a ValueError
\* of fromisoformat or a TypeError of the call is caught and reported
ToolReply(start_datetime, end_datetime, svc, provider) ==
    IF start_datetime.zone = "bad" \/ end_datetime.zone = "bad"
    THEN [status |-> "error", id |-> "", link |-> ""]
    ELSE IF ~(CreateEventKeywords \subseteq CreateEventParams)
    THEN [status |-> "error", id |-> "", link |-> ""]
    ELSE IF create_event(svc, provider) # NoEvent
    THEN [status |-> "success", id |-> create_event(svc, provider).id,
          link |-> create_event(svc, provider).link]
    ELSE [status |-> "error", id |-> "", link |-> ""]

\* the call reaches the provider's insert and the provider creates the event
Inserted(start_datetime, end_datetime, svc, provider) ==
    /\ start_datetime.zone # "bad" /\ end_datetime.zone # "bad"
    /\ CreateEventKeywords \subseteq CreateEventParams
    /\ svc /\ provider = "created"

\* one call of the create_calendar_event tool
CreateCalendarEvent ==
    /\ pc = "idle"
    /\ tool_call = <<>>
    /\ \E start_datetime \in EventStamps, end_datetime \in EventStamps,
          attendees \in AttendeeChoices, provider \in ProviderChoices :
           /\ tool_call' = <<[start |-> start_datetime, end |-> end_datetime,
                              attendees |-> attendees, provider |-> provider]>>
           /\ tool_reply' = ToolReply(start_datetime, end_datetime, service, provider)
           /\ calendar_events' =
                  IF Inserted(start_datetime, end_datetime, service, provider)
                  THEN calendar_events + 1 ELSE calendar_events
    /\ UNCHANGED <<service, pc, start_ist, end_ist, duration_minutes, business_hours_only,
                   busy_times, busy_periods, idx, current_time, slot_start,
                   available_slots, result>>

NextTool == CreateCalendarEvent

SpecTool == Init /\ [][NextTool]_vars

(* C19  Event creation on confirmation: given well-formed ISO start and    *)
(* end datetimes, create_calendar_event creates one event through the      *)
(* calendar client and returns status 'success' with the event's id and    *)
(* link; it returns 'error' only when a timestamp is unparseable or the    *)
(* provider fails to create the event.                                     *)
EventCreated ==
    \A k \in 1..Len(tool_call) :
        LET c == tool_call[k]
            wellFormed == c.start.zone # "bad" /\ c.end.zone # "bad"
            providerFails == service /\ c.provider = "HttpError"
        IN  /\ (wellFormed /\ ~providerFails) =>
                   /\ tool_reply.status = "success"
                   /\ tool_reply.id # ""
                   /\ tool_reply.link # ""
                   /\ service => calendar_events = 1
            /\ tool_reply.status = "error" => (~wellFormed \/ providerFails)

----------------------------------------------------------------------------
\* the start instants of the kept slots, in list order
KeptStarts == [k \in 1..Len(available_slots) |-> SlotBegin(available_slots[k])]

(* C20 as stated  Emission stops at the cap: at every point of a run the   *)
(* number of kept candidates is at most max_results.                       *)
EmissionStopsAtCap == Len(available_slots) <= MaxResults

(* C20 as amended  The cap is applied at return only: every candidate      *)
(* that fits a gap and passes the filter is kept, also after max_results   *)
(* have been kept (for busy intervals with start < end inside a non-empty  *)
(* window the kept list is the whole gap-stepping sequence); nothing is    *)
(* returned before the end of the scan, and the list returned is the kept  *)
(* list cut to its first max_results entries.                              *)
CapAppliedAtReturn ==
    /\ (Returned /\ start_ist < end_ist /\ BusyInsideWindow) =>
           KeptStarts =
               Ascending(ExpectedStarts(Intervals(busy_times), start_ist, end_ist,
                                        duration_minutes, business_hours_only))
    /\ Returned => result = FirstN(available_slots, 10)
    /\ ~Returned => result = <<>>

\* in the loop after the last busy period, more than max_results slots are
\* kept, the tenth of which lies before that busy period
CapAppliedAtReturnWitness ==
    /\ pc = "while_tail"
    /\ Len(busy_periods) >= 1
    /\ Len(available_slots) > MaxResults
    /\ SlotBegin(available_slots[MaxResults]) < busy_periods[Len(busy_periods)][1]

-----------------------------------------------------------------------------
(* Termination of find_available_slots.                                    *)

\* the steps of one call of find_available_slots, from the first test of the
\* for loop to the return
Scan ==
    \/ GapBefore
    \/ NoGapBefore
    \/ EmitInGap
    \/ LeaveGap
    \/ GapAfter
    \/ EmitInTail
    \/ Return

\* find_available_slots is sequential code with no blocking call in its
\* loops: once entered, a call keeps taking its next step
SpecFair == Init /\ [][Next]_vars /\ WF_vars(Scan)

\* a call is between its entry and its return
Scanning == pc \in {"for", "while_gap", "while_tail"}

(* C21  Termination: for a finite window, a finite busy list and a         *)
(* duration > 0, every call of find_available_slots returns; each          *)
(* iteration of a slot loop moves slot_start strictly forward and not past *)
(* the bound of its loop (the start of the busy period, or the end of the  *)
(* window), and the cursor never moves backwards during a call.            *)
Termination ==
    /\ Scanning ~> Returned
    /\ [][(pc = "while_gap" /\ pc' = "while_gap") =>
              /\ slot_start' > slot_start
              /\ slot_start' <= busy_periods[idx][1]]_vars
    /\ [][(pc = "while_tail" /\ pc' = "while_tail") =>
              /\ slot_start' > slot_start
              /\ slot_start' <= end_ist]_vars
    /\ [][Scanning => current_time' >= current_time]_vars

\* a call has returned after both slot loops ran and the cursor moved: a
\* slot was kept before the first busy period and another after the last
TerminationWitness ==
    /\ Returned
    /\ Len(busy_periods) >= 1
    /\ current_time > start_ist
    /\ \E j, k \in 1..Len(available_slots) :
           /\ SlotFinish(available_slots[j]) <= busy_periods[1][1]
           /\ SlotBegin(available_slots[k]) >= current_time

-----------------------------------------------------------------------------
(* check_availability (agent_tools.py)                                     *)

\* lines 47-51: the window of a one-day query, 00:00:00 to 23:59:59 of the
\* date, localized to UTC+5:30.  Slot starts and busy bounds are whole
\* minutes, so s + d <= 23:59:59 exactly when s + d <= 23:59.
DayStart == Stamp(At(0, 0), "ist")
DayEnd == Stamp(At(23, 59), "ist")

\* busy records the provider may return for the day
DayBusyChoices ==
    { Busy(Stamp(At(8, 0), "ist"), Stamp(At(8, 30), "ist")),
      Busy(Stamp(At(9, 0), "ist"), Stamp(At(10, 0), "ist")),
      Busy(Stamp(At(10, 0), "ist"), Stamp(At(18, 0), "ist")),
      Busy(Stamp(At(13, 0), "ist"), Stamp(At(14, 0), "ist")),
      Busy(Stamp(At(18, 0), "ist"), Stamp(At(23, 59), "ist")) }

DayBusyLists == UNION {[1..n -> DayBusyChoices] : n \in 0..MaxBusy}

\* lines 58-63, 82-86: the status of the reply for a list of slots
AvailabilityStatus(slots) == IF slots = <<>> THEN "no_availability" ELSE "success"

\* lines 45-56: the tool calls find_available_slots for the whole day;
\* business_hours_only is left at its default, True
CheckAvailability ==
    /\ pc = "idle"
    /\ \E d \in Durations, events \in DayBusyLists :
           \E clock \in Clocks(get_busy_times(service, 0, events)) :
               Enter(DayStart, DayEnd, d, TRUE, events, clock)

\* lines 58-86: the reply built from the slots find_available_slots returned
CheckAvailabilityReply ==
    /\ pc = "done"
    /\ tool_reply.status = "none"
    /\ tool_reply' = [status |-> AvailabilityStatus(result), id |-> "", link |-> ""]
    /\ UNCHANGED <<service, pc, start_ist, end_ist, duration_minutes, business_hours_only,
                   busy_times, busy_periods, idx, current_time, slot_start,
                   available_slots, result, tool_call, calendar_events>>

NextDay ==
    \/ CheckAvailability
    \/ GapBefore
    \/ NoGapBefore
    \/ EmitInGap
    \/ LeaveGap
    \/ GapAfter
    \/ EmitInTail
    \/ Return
    \/ CheckAvailabilityReply

SpecDay == Init /\ [][NextDay]_vars

\* the interval [t, t + duration) lies in the window, overlaps no busy
\* interval and, with business_hours_only, starts and ends within 09:00-18:00
\* of its day
FreeAt(t) ==
    /\ start_ist <= t
    /\ t + duration_minutes <= end_ist
    /\ \A j \in 1..Len(busy_times) :
           Zoned(busy_times[j]) =>
               \/ t + duration_minutes <= BusyBegin(busy_times[j])
               \/ BusyFinish(busy_times[j]) <= t
    /\ business_hours_only =>
           LET day == (t \div 1440) * 1440
           IN  /\ day + BusinessOpen * 60 <= t
               /\ t + duration_minutes <= day + BusinessClose * 60

FreeIntervalExists == \E t \in start_ist..(end_ist - duration_minutes) : FreeAt(t)

(* C22  Availability is found when it exists: whenever the window contains *)
(* an interval of the requested duration that overlaps no busy interval    *)
(* and, with business_hours_only, starts and ends within 09:00-18:00,      *)
(* find_available_slots returns at least one slot; check_availability      *)
(* answers 'no_availability' only when the window has no such interval.    *)
AvailabilityFound ==
    /\ (Returned /\ FreeIntervalExists) => result # <<>>
    /\ tool_reply.status = "no_availability" => ~FreeIntervalExists

====
